---- MODULE Spec2Model ----
(***************************************************************************)
(* A model of the student deployer's control API (backend/app.py) with its *)
(* Kubernetes helpers (backend/k8s.py), its record store (backend/db.py)   *)
(* and its request schema (backend/models.py).                             *)
(*                                                                         *)
(* Request handlers run concurrently; each call to the cluster or to the   *)
(* record store is one atomic step of the handler that makes it.  The      *)
(* cluster and the store are the shared state.  The record store itself is *)
(* taken to be reliable; the cluster may be unreachable, and its client    *)
(* configuration may be unloadable.                                        *)
(***************************************************************************)
EXTENDS Integers, Sequences, FiniteSets, TLC

(***************************************************************************)
(* Bounds of the model.                                                    *)
(***************************************************************************)
\* Handler invocations in one behaviour.
MaxCalls == 2
\* Largest request and availability on an axis in the admission-only model.
MaxQty == 2
\* Resolution of a cpu value: StudentSpec.cpu is a float, carried here as a
\* whole number of 1/CpuUnit millicores.
CpuUnit == 2
\* Longest node list and pod list in the snapshot-only model.
MaxNodes == 2
MaxPods == 2
\* Largest small numeral in the parser-only model.
MaxNumeral == 2
\* Port-forward calls in one behaviour.
MaxPfCalls == 2
\* Largest cpu value, in millicores, in the model of the cpu round trip.
MaxMillicores == 2500

\* Tenant names (StudentSpec.name, also the namespace).
Names == {"a", "b"}
\* Concurrent request handlers.
Procs == {1, 2}

(***************************************************************************)
(* Quantities.  A Kubernetes quantity string is carried as its numeric     *)
(* prefix and its suffix: "500m" is [n |-> 500, u |-> "m"], "2" is         *)
(* [n |-> 2, u |-> ""].                                                    *)
(***************************************************************************)
Q(n, u) == [n |-> n, u |-> u]

\* A faulty variant of TruncDiv: the quotient rounded up.
TruncDiv_up(x, d) == IF x >= 0 THEN (x + d - 1) \div d ELSE -((-x) \div d)

\* Python's int(x / d) for integers x and d > 0: truncation toward zero.
TruncDiv(x, d) == IF x >= 0 THEN x \div d ELSE -((-x) \div d)

Ki == 1024

parse_cpu_to_millicores(q) ==
    IF q.n = 0 /\ q.u = "" THEN 0
    ELSE IF q.u = "m" THEN q.n
    ELSE q.n * 1000

parse_memory_to_mi(q) ==
    IF q.n = 0 /\ q.u = "" THEN 0
    ELSE IF q.u = "Ki" THEN TruncDiv(q.n, Ki)
    ELSE IF q.u = "Mi" THEN q.n
    ELSE IF q.u = "Gi" THEN q.n * Ki
    ELSE IF q.u = "Ti" THEN q.n * Ki * Ki
    ELSE TruncDiv(q.n, Ki * Ki)

parse_storage_to_gi(q) ==
    IF q.n = 0 /\ q.u = "" THEN 0
    ELSE IF q.u = "Ki" THEN TruncDiv(q.n, Ki * Ki)
    ELSE IF q.u = "Mi" THEN TruncDiv(q.n, Ki)
    ELSE IF q.u = "Gi" THEN q.n
    ELSE IF q.u = "Ti" THEN q.n * Ki
    ELSE TruncDiv(q.n, Ki * Ki * Ki)

\* The suffixes the memory and storage parsers strip.
BinarySuffixes == {"Ki", "Mi", "Gi", "Ti"}

\* The absent forms "" and "0", which every parser answers with 0.
Absent(q) == q.n = 0 /\ q.u = ""

\* int(float(cpu_str) * 1000) raises ValueError on any suffix but "m".
parse_cpu_raises(q) == ~Absent(q) /\ q.u \notin {"", "m"}

\* int(memory_str) raises ValueError on any suffix but the four stripped.
parse_memory_raises(q) == ~Absent(q) /\ q.u \notin BinarySuffixes \cup {""}

parse_storage_raises(q) == ~Absent(q) /\ q.u \notin BinarySuffixes \cup {""}

(***************************************************************************)
(* StudentSpec.  cpu is carried in 1/CpuUnit millicores (0.5 cores is      *)
(* 500 * CpuUnit); memory is in MB and storage in GB.                      *)
(***************************************************************************)
SpecSmall == [cpu |-> 500 * CpuUnit, memory |-> 256, storage |-> 1]
SpecBig == [cpu |-> 1500 * CpuUnit, memory |-> 512, storage |-> 2]
\* The requests made: each tenant asks for its own resources.
Requests == {<<"a", SpecSmall>>, <<"b", SpecBig>>}
NoSpec == [cpu |-> 0, memory |-> 0, storage |-> 0]

\* Python's round() of x/d for x >= 0: to the nearest integer, ties to the
\* even one.
Round(x, d) ==
    LET f == x \div d
        r == x % d
    IN  IF 2 * r < d THEN f
        ELSE IF 2 * r > d THEN f + 1
        ELSE IF f % 2 = 0 THEN f ELSE f + 1

\* cpu < 1 gives int(round(cpu * 1000)) "m", else str(int(round(cpu))).
to_k8s_resources(spec) ==
    [cpu |-> IF spec.cpu < 1000 * CpuUnit
             THEN Q(Round(spec.cpu, CpuUnit), "m")
             ELSE Q(Round(spec.cpu, 1000 * CpuUnit), ""),
     memory |-> Q(spec.memory, "Mi"),
     storage |-> Q(spec.storage, "Gi")]

to_persisted_doc(name, spec) ==
    [name |-> name,
     input_numeric |-> spec,
     k8s_resources |-> to_k8s_resources(spec)]

(***************************************************************************)
(* The cluster's nodes and the capacity snapshot.                          *)
(***************************************************************************)
NodeAllocatable == [cpu |-> Q(2, ""), memory |-> Q(1048576, "Ki"), storage |-> Q(4, "Gi")]
ClusterNodes == <<NodeAllocatable, NodeAllocatable>>

skip_namespaces == {"kube-system", "kube-public", "kube-node-lease"}

\* The pods the snapshot counts: outside the skipped namespaces, and Running
\* or Pending.
Counted(pod) ==
    pod.namespace \notin skip_namespaces /\ pod.phase \in {"Running", "Pending"}

ZeroUsed == [cpu |-> 0, memory |-> 0, storage |-> 0]

\* The requests of a pod's containers summed (containers without requests
\* are not in the list; an absent key is the quantity "0").
RECURSIVE ContainersUsed(_)
ContainersUsed(containers) ==
    IF containers = <<>> THEN ZeroUsed
    ELSE LET requests == Head(containers)
             t == ContainersUsed(Tail(containers))
         IN  [cpu |-> parse_cpu_to_millicores(requests.cpu) + t.cpu,
              memory |-> parse_memory_to_mi(requests.memory) + t.memory,
              storage |-> parse_storage_to_gi(requests.storage) + t.storage]

\* A faulty variant of PodUsed: pending pods are not counted.
PodUsed_running_only(pod) ==
    IF pod.namespace \in skip_namespaces \/ pod.phase # "Running"
    THEN ZeroUsed
    ELSE ContainersUsed(pod.containers)

\* One pod's contribution to the used capacity (k8s.py, the loop over pods).
PodUsed(pod) ==
    IF ~Counted(pod) THEN ZeroUsed ELSE ContainersUsed(pod.containers)

RECURSIVE UsedBy(_)
UsedBy(podList) ==
    IF podList = <<>> THEN ZeroUsed
    ELSE LET h == PodUsed(Head(podList))
             t == UsedBy(Tail(podList))
         IN  [cpu |-> h.cpu + t.cpu, memory |-> h.memory + t.memory,
              storage |-> h.storage + t.storage]

\* A parser raises on one of the three quantities of a resource map.
QuantitiesRaise(r) ==
    \/ parse_cpu_raises(r.cpu)
    \/ parse_memory_raises(r.memory)
    \/ parse_storage_raises(r.storage)

\* A parser raises in the loop over the pods.
PodsRaise(podList) ==
    \E i \in 1..Len(podList) :
        /\ Counted(podList[i])
        /\ \E j \in 1..Len(podList[i].containers) : QuantitiesRaise(podList[i].containers[j])

\* get_cluster_resources raising exc.
SnapFailure(exc) ==
    [ok |-> FALSE, exc |-> exc, total |-> NoSpec, used |-> NoSpec, available |-> NoSpec]

\* get_cluster_resources once the node and pod lists are in hand; ok is FALSE
\* when it raises: RuntimeError without nodes, ValueError from a parser.
get_cluster_resources(nodeList, podList) ==
    IF nodeList = <<>> THEN SnapFailure("RuntimeError")
    ELSE IF QuantitiesRaise(nodeList[1]) \/ PodsRaise(podList) THEN SnapFailure("ValueError")
    ELSE LET allocatable == nodeList[1]
             total == [cpu |-> parse_cpu_to_millicores(allocatable.cpu),
                       memory |-> parse_memory_to_mi(allocatable.memory),
                       storage |-> parse_storage_to_gi(allocatable.storage)]
             used == UsedBy(podList)
         IN  [ok |-> TRUE, exc |-> "none", total |-> total, used |-> used,
              available |-> [cpu |-> total.cpu - used.cpu,
                             memory |-> total.memory - used.memory,
                             storage |-> total.storage - used.storage]]

\* get_cluster_resources against a cluster whose API behaves as api says:
\* _ensure_k8s raises RuntimeError without a config, and list_node raises a
\* transport error when the cluster does not answer.
get_cluster_resources_from(api, nodeList, podList) ==
    IF api = "noconfig" THEN SnapFailure("RuntimeError")
    ELSE IF api = "unreachable" THEN SnapFailure("Exception")
    ELSE get_cluster_resources(nodeList, podList)

\* The issues list of check_resources_available: one entry per failing axis,
\* each axis tested by its own if.
Issues(req, available) ==
    (IF req.cpu > available.cpu THEN <<"CPU">> ELSE <<>>)
    \o (IF req.memory > available.memory THEN <<"Memory">> ELSE <<>>)
    \o (IF req.storage > available.storage THEN <<"Storage">> ELSE <<>>)

\* requested_cpu_m = int(cpu_cores * 1000): the millicores, truncated.
requested_cpu_m(spec) == TruncDiv(spec.cpu, CpuUnit)

\* A faulty variant of the handler of check_resources_available: only
\* RuntimeError is caught.
CheckCatches_runtime_only(exc) == exc = "RuntimeError"

\* except Exception: every exception of the snapshot is caught.
CheckCatches(exc) == TRUE

\* check_resources_available: snap is get_cluster_resources' result, or its
\* ok is FALSE when the snapshot raised.  raised is the exception that
\* leaves check_resources_available, or "none".
check_resources_available(snap, spec) ==
    IF ~snap.ok
    THEN IF CheckCatches(snap.exc)
         THEN [available |-> FALSE, issues |-> <<>>, failed |-> TRUE, raised |-> "none",
               message |-> "Failed to check cluster resources"]
         ELSE [available |-> FALSE, issues |-> <<>>, failed |-> FALSE, raised |-> snap.exc,
               message |-> "-"]
    ELSE LET requested == [cpu |-> requested_cpu_m(spec), memory |-> spec.memory,
                           storage |-> spec.storage]
             issues == Issues(requested, snap.available)
         IN  [available |-> issues = <<>>, issues |-> issues, failed |-> FALSE,
              raised |-> "none",
              message |-> IF issues = <<>> THEN "Resources available"
                          ELSE "Insufficient cluster resources"]

(***************************************************************************)
(* State.                                                                  *)
(***************************************************************************)
VARIABLES
    store,       \* the students collection: a set of documents
    namespaces,  \* the cluster's tenant namespaces
    pods,        \* the pod <name>-pod of each namespace, or NoPod
    k8sInit,     \* k8s._k8s_v1 is set
    configOk,    \* a kube config can be loaded
    reachable,   \* the cluster's API answers
    proc,        \* each request handler's call in progress and its locals
    calls,       \* handler invocations so far
    admitted,    \* (name, spec) pairs check_resources_available has accepted
    adReq,       \* admission-only model: the requested triple
    adAvail,     \* admission-only model: the snapshot's available triple
    adResult,    \* admission-only model: the decision, or NoCheck
    snNodes,     \* snapshot-only model: list_node().items
    snPods,      \* snapshot-only model: list_pod_for_all_namespaces().items
    snApi,       \* snapshot-only model: how the cluster's API behaves
    snSnap,      \* snapshot-only model: get_cluster_resources' outcome
    snCheck,     \* snapshot-only model: check_resources_available's outcome
    pq,          \* parser-only model: the quantity string parsed
    pResult,     \* parser-only model: the three parsers' outcomes
    pfFiles,     \* port-forward model: the pidfiles of PF_DIR, by name
    children,    \* port-forward model: the kubectl processes spawned, by pid
    pfHeld,      \* port-forward model: local ports held by other processes
    pfProc,      \* port-forward model: each handler's call in progress
    pfCalls      \* port-forward model: handler invocations so far

apiVars == <<store, namespaces, pods, k8sInit, configOk, reachable, proc, calls, admitted>>
adVars == <<adReq, adAvail, adResult>>
snapVars == <<snNodes, snPods, snApi, snSnap, snCheck>>
parseVars == <<pq, pResult>>
pureVars == <<adVars, snapVars, parseVars>>
pfVars == <<pfFiles, children, pfHeld, pfProc, pfCalls>>

vars == <<apiVars, pureVars, pfVars>>

NoRequests == [cpu |-> Q(0, ""), memory |-> Q(0, ""), storage |-> Q(0, "")]
NoPod == [phase |-> "-", requests |-> NoRequests]
NoCheck == [available |-> FALSE, issues |-> <<>>, failed |-> FALSE, raised |-> "none",
            message |-> "-"]
NoRes == [cpu |-> Q(0, ""), memory |-> Q(0, ""), storage_qty |-> 0]

\* No snapshot taken yet, no quantity given, no parse done.
NoSnap == SnapFailure("none")
NoInput == [axis |-> "-", q |-> Q(0, "")]
NoParse == [raises |-> FALSE, value |-> 0, done |-> FALSE]

IdleProc ==
    [op |-> "none", pc |-> "idle", name |-> "-", spec |-> NoSpec, res |-> NoRes,
     phase |-> "-", nsResp |-> "-", podResp |-> "-", exc |-> "none",
     failResp |-> "-", check |-> NoCheck, accessible |-> TRUE, todo |-> <<>>,
     db_status |-> "-", out |-> <<>>, raced |-> FALSE, result |-> "-"]

Busy(p) == proc[p].pc \notin {"idle", "done"}

\* A request is served by the first worker that runs no call (the workers are
\* interchangeable).
Free(p) ==
    /\ ~Busy(p)
    /\ calls < MaxCalls
    /\ \A q \in Procs : q < p => Busy(q)

\* The call returns: its working locals are dropped, what it observed and
\* answered is kept until the worker serves its next request.
Finish(r, result) ==
    [IdleProc EXCEPT !.pc = "done", !.op = r.op, !.name = r.name, !.result = result,
                     !.phase = r.phase, !.nsResp = r.nsResp, !.podResp = r.podResp,
                     !.exc = r.exc, !.failResp = r.failResp, !.check = r.check,
                     !.db_status = r.db_status, !.out = r.out, !.raced = r.raced]

ProvisionOps == {"deploy", "deploy_from_db"}

\* Another provision call for the same name is in flight and the name has no
\* pod: the call that starts now races it.
Peers(p, name) ==
    {q \in Procs \ {p} : Busy(q) /\ proc[q].op \in ProvisionOps /\ proc[q].name = name}

Races(p, name) == pods[name] = NoPod /\ Peers(p, name) # {}

\* proc once worker p has taken the provision call r; raced marks both racers
\* when the call goes on.
StartProvision(p, r) ==
    LET races == Races(p, r.name) /\ r.pc # "done"
    IN  [q \in Procs |->
            IF q = p THEN [r EXCEPT !.raced = races]
            ELSE IF races /\ q \in Peers(p, r.name) THEN [proc[q] EXCEPT !.raced = TRUE]
            ELSE proc[q]]

(***************************************************************************)
(* The record store (db.py).                                               *)
(***************************************************************************)
Matching(st, name) == {d \in st : d.name = name}

\* A faulty variant of save_or_update_student: insert_one, with no match on the
\* name.
save_or_update_student_insert(st, doc, status) ==
    st \cup {[name |-> doc.name, input_numeric |-> doc.input_numeric,
               k8s_resources |-> doc.k8s_resources, status |-> status,
               last_error |-> "none"]}

\* update_one({"name": name}, {"$set": doc}, upsert=True) with status set.
save_or_update_student(st, doc, status) ==
    IF Matching(st, doc.name) = {}
    THEN st \cup {[name |-> doc.name, input_numeric |-> doc.input_numeric,
                   k8s_resources |-> doc.k8s_resources, status |-> status,
                   last_error |-> "none"]}
    ELSE LET d == CHOOSE x \in Matching(st, doc.name) : TRUE
         IN  (st \ {d}) \cup {[d EXCEPT !.input_numeric = doc.input_numeric,
                                        !.k8s_resources = doc.k8s_resources,
                                        !.status = status]}

\* A faulty variant of update_student_status: the error text is dropped.
update_student_status_no_error(st, name, status, error) ==
    IF Matching(st, name) = {}
    THEN st
    ELSE LET d == CHOOSE x \in Matching(st, name) : TRUE
         IN  (st \ {d}) \cup {[d EXCEPT !.status = status]}

\* update_one({"name": name}, {"$set": update}): no upsert; error "none" is None.
update_student_status(st, name, status, error) ==
    IF Matching(st, name) = {}
    THEN st
    ELSE LET d == CHOOSE x \in Matching(st, name) : TRUE
         IN  (st \ {d}) \cup {[d EXCEPT !.status = status,
                                        !.last_error = IF error = "none" THEN @ ELSE error]}

delete_student(st, name) ==
    IF Matching(st, name) = {}
    THEN st
    ELSE st \ {CHOOSE x \in Matching(st, name) : TRUE}

\* list_students as the sequence of (name, status) the admin listing reads,
\* in a fixed order.
RECURSIVE list_students(_)
list_students(st) ==
    IF st = {} THEN <<>>
    ELSE LET d == CHOOSE x \in st : TRUE
         IN  <<[name |-> d.name, status |-> d.status]>> \o list_students(st \ {d})

(***************************************************************************)
(* The cluster (k8s.py over the Kubernetes API).  Responses are the API's  *)
(* status codes; "unreachable" is a transport failure.                     *)
(***************************************************************************)
\* _ensure_k8s raises RuntimeError: no client yet and no loadable config.
EnsureRaises == ~k8sInit /\ ~configOk

ApiReadPod(name) ==
    IF ~reachable THEN "unreachable"
    ELSE IF pods[name] = NoPod THEN "404" ELSE "200"

ApiCreateNamespace(name) ==
    IF ~reachable THEN "unreachable"
    ELSE IF name \in namespaces THEN "409" ELSE "201"

ApiCreatePod(name) ==
    IF ~reachable THEN "unreachable"
    ELSE IF name \notin namespaces THEN "404"
    ELSE IF pods[name] # NoPod THEN "409" ELSE "201"

ApiDeletePod(name) ==
    IF ~reachable THEN "unreachable"
    ELSE IF pods[name] = NoPod THEN "404" ELSE "200"

ApiDeleteNamespace(name) ==
    IF ~reachable THEN "unreachable"
    ELSE IF name \notin namespaces THEN "404" ELSE "200"

\* get_pod_status: the phase, "Not Found" on 404, or the exception it raises
\* (resp is what the cluster answered, "noconfig" when no client could be built).
get_pod_status(name) ==
    IF EnsureRaises THEN [exc |-> "RuntimeError", phase |-> "-", resp |-> "noconfig"]
    ELSE LET resp == ApiReadPod(name)
         IN  IF resp = "200" THEN [exc |-> "none", phase |-> pods[name].phase, resp |-> resp]
             ELSE IF resp = "404" THEN [exc |-> "none", phase |-> "Not Found", resp |-> resp]
             ELSE [exc |-> "Exception", phase |-> "-", resp |-> resp]

\* create_namespace re-raises every API error but 409.
create_namespace_raises(resp) == resp \notin {"201", "409"}

\* A faulty variant of create_pod: 409 is re-raised like any other API error.
create_pod_raises_conflict(resp) == resp # "201"

\* create_pod re-raises every API error but 409.
create_pod_raises(resp) == resp \notin {"201", "409"}

\* list_pod_for_all_namespaces().items, as get_cluster_resources reads it.
RECURSIVE PodListOf(_)
PodListOf(S) ==
    IF S = {} THEN <<>>
    ELSE LET n == CHOOSE x \in S : TRUE
         IN  <<[namespace |-> n, phase |-> pods[n].phase,
                containers |-> <<pods[n].requests>>]>>
             \o PodListOf(S \ {n})

ClusterPodList == PodListOf({n \in Names : pods[n] # NoPod})

\* The records of S as pods they would hold capacity for.
RECURSIVE ReservedOf(_)
ReservedOf(S) ==
    IF S = {} THEN <<>>
    ELSE LET d == CHOOSE x \in S : TRUE
         IN  <<[namespace |-> d.name, phase |-> "Pending",
                containers |-> <<d.k8s_resources>>]>>
             \o ReservedOf(S \ {d})

\* A variant of Snapshot that reserves: the stored records that have no pod
\* yet count as used.
Snapshot_reserving ==
    get_cluster_resources_from(
        IF EnsureRaises THEN "noconfig" ELSE IF ~reachable THEN "unreachable" ELSE "ok",
        ClusterNodes, ClusterPodList \o ReservedOf({d \in store : pods[d.name] = NoPod}))

\* get_cluster_resources against the cluster as it is now.
Snapshot ==
    get_cluster_resources_from(
        IF EnsureRaises THEN "noconfig" ELSE IF ~reachable THEN "unreachable" ELSE "ok",
        ClusterNodes, ClusterPodList)

(***************************************************************************)
(* POST /submit (app.py, submit).                                          *)
(***************************************************************************)
\* A faulty variant of submit's gate: the check's answer is ignored.
SubmitProceeds_always(check) == TRUE

\* The gate of submit: the request goes on to the store iff the check passed.
SubmitProceeds(check) == check.available

\* check_resources_available, then the 400 when it did not pass.
Submit_check(p, name, spec) ==
    /\ Free(p)
    /\ LET check == check_resources_available(Snapshot, spec)
           r == [IdleProc EXCEPT !.op = "submit", !.name = name, !.spec = spec,
                                 !.check = check]
       IN  /\ proc' = [proc EXCEPT ![p] =
                          IF check.raised # "none" THEN Finish(r, "uncaught")
                          ELSE IF SubmitProceeds(check) THEN [r EXCEPT !.pc = "save"]
                          ELSE Finish(r, "400")]
           /\ admitted' = IF check.available THEN admitted \cup {<<name, spec>>}
                          ELSE admitted
    /\ k8sInit' = (k8sInit \/ configOk)
    /\ calls' = calls + 1
    /\ UNCHANGED <<store, namespaces, pods, configOk, reachable, pureVars, pfVars>>

\* save_or_update_student(doc, status="pending").
Submit_save(p) ==
    /\ proc[p].op = "submit" /\ proc[p].pc = "save"
    /\ store' = save_or_update_student(store, to_persisted_doc(proc[p].name, proc[p].spec),
                                       "pending")
    /\ proc' = [proc EXCEPT ![p] = Finish(@, "queued")]
    /\ UNCHANGED <<namespaces, pods, k8sInit, configOk, reachable, calls, admitted,
                   pureVars, pfVars>>

(***************************************************************************)
(* POST /deploy and POST /deploy-from-db (app.py, deploy, deploy_from_db). *)
(***************************************************************************)
\* A faulty variant of the existence check: only a running pod is a conflict.
PodExists_running(phase) == phase = "Running"

\* A pod in any phase but "Not Found" makes the deploy a conflict.
PodExists(phase) == phase # "Not Found"

\* deploy: get_pod_status, outside any try; 409 when the pod exists.
Deploy_check(p, name, spec) ==
    /\ Free(p)
    /\ LET st == get_pod_status(name)
           r == [IdleProc EXCEPT !.op = "deploy", !.name = name, !.spec = spec,
                                 !.exc = st.exc, !.phase = st.phase,
                                 !.failResp = IF st.exc = "none" THEN "-" ELSE st.resp]
       IN  proc' = StartProvision(p,
                       IF st.exc # "none" THEN Finish(r, "uncaught")
                       ELSE IF PodExists(st.phase) THEN Finish(r, "409")
                       ELSE [r EXCEPT !.pc = "save"])
    /\ k8sInit' = (k8sInit \/ configOk)
    /\ calls' = calls + 1
    /\ UNCHANGED <<store, namespaces, pods, configOk, reachable, admitted,
                   pureVars, pfVars>>

\* deploy: save_or_update_student(doc, status="pending"), then the resources
\* the pod is created with.
Deploy_save(p) ==
    /\ proc[p].op = "deploy" /\ proc[p].pc = "save"
    /\ store' = save_or_update_student(store, to_persisted_doc(proc[p].name, proc[p].spec),
                                       "pending")
    /\ LET r == to_k8s_resources(proc[p].spec)
       IN  proc' = [proc EXCEPT ![p] =
                       [@ EXCEPT !.pc = "create_ns",
                                 !.res = [cpu |-> r.cpu, memory |-> r.memory,
                                          storage_qty |-> proc[p].spec.storage]]]
    /\ UNCHANGED <<namespaces, pods, k8sInit, configOk, reachable, calls, admitted,
                   pureVars, pfVars>>

\* deploy_from_db: get_student and the resources read from the document.
DeployFromDb_get(p, name) ==
    /\ Free(p)
    /\ LET r == [IdleProc EXCEPT !.op = "deploy_from_db", !.name = name]
       IN  proc' = StartProvision(p,
                       IF Matching(store, name) = {} THEN Finish(r, "404")
                       ELSE LET doc == CHOOSE x \in Matching(store, name) : TRUE
                            IN  [r EXCEPT !.pc = "check",
                                          !.res = [cpu |-> doc.k8s_resources.cpu,
                                                   memory |-> doc.k8s_resources.memory,
                                                   storage_qty |-> doc.k8s_resources.storage.n]])
    /\ calls' = calls + 1
    /\ UNCHANGED <<store, namespaces, pods, k8sInit, configOk, reachable, admitted,
                   pureVars, pfVars>>

\* deploy_from_db: get_pod_status inside try/except RuntimeError.
DeployFromDb_check(p) ==
    /\ proc[p].op = "deploy_from_db" /\ proc[p].pc = "check"
    /\ LET st == get_pod_status(proc[p].name)
           r == [proc[p] EXCEPT !.exc = st.exc, !.phase = st.phase,
                                !.failResp = IF st.exc = "none" THEN "-" ELSE st.resp]
       IN  /\ proc' = [proc EXCEPT ![p] =
                          IF st.exc = "RuntimeError" THEN Finish(r, "503")
                          ELSE IF st.exc # "none" THEN Finish(r, "uncaught")
                          ELSE IF PodExists(st.phase) THEN Finish(r, "409")
                          ELSE [r EXCEPT !.pc = "create_ns"]]
           /\ store' = IF st.exc = "RuntimeError"
                       THEN update_student_status(store, proc[p].name, "pending",
                                                  "Cluster unreachable")
                       ELSE store
    /\ k8sInit' = (k8sInit \/ configOk)
    /\ UNCHANGED <<namespaces, pods, configOk, reachable, calls, admitted,
                   pureVars, pfVars>>

\* The except Exception of both handlers: status failed, the error kept, 500.
Failed(p, r, exc, resp) ==
    /\ proc' = [proc EXCEPT ![p] = Finish([r EXCEPT !.exc = exc, !.failResp = resp], "500")]
    /\ store' = update_student_status(store, proc[p].name, "failed", "K8s error")

\* create_namespace(ns).
Create_namespace(p) ==
    /\ proc[p].pc = "create_ns"
    /\ LET resp == IF EnsureRaises THEN "noconfig" ELSE ApiCreateNamespace(proc[p].name)
           r == [proc[p] EXCEPT !.nsResp = resp]
       IN  IF EnsureRaises
           THEN Failed(p, r, "RuntimeError", resp) /\ UNCHANGED namespaces
           ELSE IF create_namespace_raises(resp)
           THEN Failed(p, r, "Exception", resp) /\ UNCHANGED namespaces
           ELSE /\ proc' = [proc EXCEPT ![p] = [r EXCEPT !.pc = "create_pod"]]
                /\ namespaces' = IF resp = "201" THEN namespaces \cup {proc[p].name}
                                 ELSE namespaces
                /\ UNCHANGED store
    /\ k8sInit' = (k8sInit \/ configOk)
    /\ UNCHANGED <<pods, configOk, reachable, calls, admitted, pureVars, pfVars>>

\* create_pod(...): requests and limits from the handler's resources.
Create_pod(p) ==
    /\ proc[p].pc = "create_pod"
    /\ LET resp == IF EnsureRaises THEN "noconfig" ELSE ApiCreatePod(proc[p].name)
           r == [proc[p] EXCEPT !.podResp = resp]
       IN  IF EnsureRaises
           THEN Failed(p, r, "RuntimeError", resp) /\ UNCHANGED pods
           ELSE IF create_pod_raises(resp)
           THEN Failed(p, r, "Exception", resp) /\ UNCHANGED pods
           ELSE /\ proc' = [proc EXCEPT ![p] = [r EXCEPT !.pc = "get_phase"]]
                /\ pods' = IF resp = "201"
                           THEN [pods EXCEPT ![proc[p].name] =
                                    [phase |-> "Pending",
                                     requests |-> [cpu |-> proc[p].res.cpu,
                                                   memory |-> proc[p].res.memory,
                                                   storage |-> Q(proc[p].res.storage_qty, "Gi")]]]
                           ELSE pods
                /\ UNCHANGED store
    /\ k8sInit' = (k8sInit \/ configOk)
    /\ UNCHANGED <<namespaces, configOk, reachable, calls, admitted, pureVars, pfVars>>

\* phase = get_pod_status(...) after the creation.
Get_phase(p) ==
    /\ proc[p].pc = "get_phase"
    /\ LET st == get_pod_status(proc[p].name)
           r == [proc[p] EXCEPT !.phase = st.phase]
       IN  IF st.exc # "none"
           THEN Failed(p, r, st.exc, st.resp)
           ELSE /\ proc' = [proc EXCEPT ![p] = [r EXCEPT !.pc = "set_deployed"]]
                /\ UNCHANGED store
    /\ k8sInit' = (k8sInit \/ configOk)
    /\ UNCHANGED <<namespaces, pods, configOk, reachable, calls, admitted,
                   pureVars, pfVars>>

\* update_student_status(name, status="deployed") and the 200.
Set_deployed(p) ==
    /\ proc[p].pc = "set_deployed"
    /\ store' = update_student_status(store, proc[p].name, "deployed", "none")
    /\ proc' = [proc EXCEPT ![p] = Finish(@, "ok")]
    /\ UNCHANGED <<namespaces, pods, k8sInit, configOk, reachable, calls, admitted,
                   pureVars, pfVars>>

(***************************************************************************)
(* GET /admin/students (app.py, admin_students): the listing that resyncs  *)
(* each record's status with the live phase.                               *)
(***************************************************************************)
\* A faulty variant of the auto-sync: a deployed record whose pod is gone is
\* left deployed.
ResyncStatus_pending_only(db_status, phase) ==
    IF phase = "Running" /\ db_status = "pending" THEN "deployed"
    ELSE IF phase = "Not Found" /\ db_status = "pending" THEN "failed"
    ELSE "unchanged"

\* The auto-sync of a record whose phase was fetched: the new status, or
\* "unchanged".
ResyncStatus(db_status, phase) ==
    IF phase = "Running" /\ db_status = "pending" THEN "deployed"
    ELSE IF phase = "Not Found" /\ db_status \in {"deployed", "pending"} THEN "failed"
    ELSE "unchanged"

\* The except Exception around the fetch: the new status when it raised.
ResyncOnError(db_status) == IF db_status = "pending" THEN "failed" ELSE "unchanged"

\* The live phase reported when the fetch raised.
LivePhaseOnError == "Not Found"

\* _ensure_k8s inside try/except, then list_students.
Admin_list(p) ==
    /\ Free(p)
    /\ LET todo == list_students(store)
           r == [IdleProc EXCEPT !.op = "admin_students", !.accessible = ~EnsureRaises,
                                 !.todo = todo]
       IN  proc' = [proc EXCEPT ![p] =
                       IF todo = <<>> THEN Finish(r, "listed") ELSE [r EXCEPT !.pc = "sync"]]
    /\ k8sInit' = (k8sInit \/ configOk)
    /\ calls' = calls + 1
    /\ UNCHANGED <<store, namespaces, pods, configOk, reachable, admitted,
                   pureVars, pfVars>>

\* One round of the loop over the listed documents.
Admin_record(p) ==
    /\ proc[p].op = "admin_students" /\ proc[p].pc = "sync"
    /\ LET d == Head(proc[p].todo)
           st == get_pod_status(d.name)
           live == IF ~proc[p].accessible THEN "Cluster Down"
                   ELSE IF st.exc = "none" THEN st.phase
                   ELSE LivePhaseOnError
           new == IF ~proc[p].accessible THEN "unchanged"
                  ELSE IF st.exc = "none" THEN ResyncStatus(d.status, st.phase)
                  ELSE ResyncOnError(d.status)
           error == IF new # "failed" THEN "none"
                    ELSE IF st.exc = "none" THEN "Pod not found"
                    ELSE "Cannot check pod status"
           view == [name |-> d.name,
                    status |-> IF new = "unchanged" THEN d.status ELSE new,
                    live_phase |-> live]
           r == [proc[p] EXCEPT !.todo = Tail(@), !.out = Append(@, view),
                                !.db_status = d.status,
                                !.exc = IF proc[p].accessible THEN st.exc ELSE "none"]
       IN  /\ store' = IF new = "unchanged" THEN store
                       ELSE update_student_status(store, d.name, new, error)
           /\ proc' = [proc EXCEPT ![p] =
                          IF Tail(proc[p].todo) = <<>> THEN Finish(r, "listed") ELSE r]
    /\ k8sInit' = IF proc[p].accessible THEN (k8sInit \/ configOk) ELSE k8sInit
    /\ UNCHANGED <<namespaces, pods, configOk, reachable, calls, admitted,
                   pureVars, pfVars>>

(***************************************************************************)
(* DELETE /cleanup (app.py, cleanup).  Each delete's exceptions are        *)
(* swallowed.                                                              *)
(***************************************************************************)
Cleanup_delete_pod(p, name) ==
    /\ Free(p)
    /\ proc' = [proc EXCEPT ![p] =
                   [IdleProc EXCEPT !.op = "cleanup", !.name = name, !.pc = "delete_ns"]]
    /\ pods' = IF ~EnsureRaises /\ ApiDeletePod(name) = "200"
               THEN [pods EXCEPT ![name] = NoPod]
               ELSE pods
    /\ k8sInit' = (k8sInit \/ configOk)
    /\ calls' = calls + 1
    /\ UNCHANGED <<store, namespaces, configOk, reachable, admitted,
                   pureVars, pfVars>>

\* Deleting a namespace deletes the pod in it.
Cleanup_delete_namespace(p) ==
    /\ proc[p].op = "cleanup" /\ proc[p].pc = "delete_ns"
    /\ LET gone == ~EnsureRaises /\ ApiDeleteNamespace(proc[p].name) = "200"
       IN  /\ namespaces' = IF gone THEN namespaces \ {proc[p].name} ELSE namespaces
           /\ pods' = IF gone THEN [pods EXCEPT ![proc[p].name] = NoPod] ELSE pods
    /\ proc' = [proc EXCEPT ![p] = [@ EXCEPT !.pc = "delete_student"]]
    /\ k8sInit' = (k8sInit \/ configOk)
    /\ UNCHANGED <<store, configOk, reachable, calls, admitted, pureVars, pfVars>>

Cleanup_delete_student(p) ==
    /\ proc[p].op = "cleanup" /\ proc[p].pc = "delete_student"
    /\ store' = delete_student(store, proc[p].name)
    /\ proc' = [proc EXCEPT ![p] = Finish(@, "deleted")]
    /\ UNCHANGED <<namespaces, pods, k8sInit, configOk, reachable, calls, admitted,
                   pureVars, pfVars>>

(***************************************************************************)
(* The environment: the cluster schedules and runs pods, the network comes *)
(* and goes, and the kube config may appear or disappear before the client *)
(* is built (it is not read again afterwards).                             *)
(***************************************************************************)
\* The environment matters while a call runs or another one can still come.
Observed == calls < MaxCalls \/ \E p \in Procs : Busy(p)

\* A pending pod starts, a running pod fails, and a pod can be deleted from
\* outside this service.
PodPhaseChange(name) ==
    /\ Observed
    /\ pods[name] # NoPod
    /\ \/ pods[name].phase = "Pending" /\ pods' = [pods EXCEPT ![name].phase = "Running"]
       \/ pods[name].phase = "Running" /\ pods' = [pods EXCEPT ![name].phase = "Failed"]
       \/ pods' = [pods EXCEPT ![name] = NoPod]
    /\ UNCHANGED <<store, namespaces, k8sInit, configOk, reachable, proc, calls, admitted,
                   pureVars, pfVars>>

ReachabilityChange ==
    /\ Observed
    /\ reachable' = ~reachable
    /\ UNCHANGED <<store, namespaces, pods, k8sInit, configOk, proc, calls, admitted,
                   pureVars, pfVars>>

ConfigChange ==
    /\ Observed
    /\ ~k8sInit
    /\ configOk' = ~configOk
    /\ UNCHANGED <<store, namespaces, pods, k8sInit, reachable, proc, calls, admitted,
                   pureVars, pfVars>>

\* The service restarts once its requests are served: the module globals of
\* k8s.py are lost, the store and the cluster are not.
Restart ==
    /\ calls < MaxCalls
    /\ k8sInit
    /\ \A p \in Procs : ~Busy(p)
    /\ k8sInit' = FALSE
    /\ proc' = [p \in Procs |-> IdleProc]
    /\ UNCHANGED <<store, namespaces, pods, configOk, reachable, calls, admitted,
                   pureVars, pfVars>>

(***************************************************************************)
(* The specification of the control API.                                   *)
(***************************************************************************)
(***************************************************************************)
(* Port forwarding (app.py, pf_start and pf_stop_all): the pidfiles of     *)
(* PF_DIR are the registry, the kubectl children are the sessions.         *)
(***************************************************************************)
\* No pidfile.
NoFile == [pid |-> 0, port |-> 0]

\* A handler's locals.  listed is the registry as stop_all found it, and
\* alone says that no other call ran during this one.
PfIdleProc ==
    [op |-> "none", pc |-> "idle", name |-> "-", lp |-> 0, pid |-> 0, todo |-> <<>>,
     info |-> "-", stopped |-> <<>>, listed |-> {}, port |-> 0, alone |-> TRUE,
     result |-> "-"]

(***************************************************************************)
(* Initial states.                                                         *)
(***************************************************************************)
\* The sub-models at rest.
AdIdle == adReq = NoSpec /\ adAvail = NoSpec /\ adResult = NoCheck

SnapIdle ==
    /\ snNodes = <<>> /\ snPods = <<>> /\ snApi = "ok"
    /\ snSnap = NoSnap /\ snCheck = NoCheck

ParseIdle == pq = NoInput /\ pResult = NoParse

PfIdle ==
    /\ pfFiles = [n \in Names |-> NoFile]
    /\ children = <<>>
    /\ pfHeld = {}
    /\ pfProc = [p \in Procs |-> PfIdleProc]
    /\ pfCalls = 0

\* The control API with nothing stored, nothing deployed and no call made.
ApiIdle ==
    /\ store = {}
    /\ namespaces = {}
    /\ pods = [n \in Names |-> NoPod]
    /\ k8sInit = FALSE
    /\ proc = [p \in Procs |-> IdleProc]
    /\ calls = 0
    /\ admitted = {}

(***************************************************************************)
(* The port-forward handlers.                                              *)
(***************************************************************************)
\* The local ports of the scanned range (8001..9000 in the code).
PfPorts == {1, 2}

PfBusy(p) == pfProc[p].pc \notin {"idle", "done"}

\* A request is served by the first worker that runs no call.
PfFree(p) ==
    /\ ~PfBusy(p)
    /\ pfCalls < MaxPfCalls
    /\ \A q \in Procs : q < p => PfBusy(q)

\* pfProc once worker p has taken the call r: a stop_all in flight is no
\* longer alone, and r is alone if no other call is in flight.
PfBegin(p, r) ==
    [q \in Procs |->
        IF q = p THEN [r EXCEPT !.alone = \A o \in Procs \ {p} : ~PfBusy(o)]
        ELSE IF PfBusy(q) THEN [pfProc[q] EXCEPT !.alone = FALSE]
        ELSE pfProc[q]]

\* The call returns: what it answered is kept until the worker's next call.
PfFinish(r, result) ==
    [PfIdleProc EXCEPT !.pc = "done", !.op = r.op, !.name = r.name, !.pid = r.pid,
                       !.port = r.port, !.stopped = r.stopped, !.listed = r.listed,
                       !.alone = r.alone, !.result = result]

Pids == 1..Len(children)

\* The kubectl process pid runs.
Alive(pid) == children[pid].state \in {"starting", "listening"}

\* _is_port_free: nothing accepts a connection on the port.
is_port_free(port) ==
    /\ port \notin pfHeld
    /\ \A pid \in Pids : ~(children[pid].state = "listening" /\ children[pid].port = port)

\* _next_free_port: the lowest free port of the range, 0 when it raises.
next_free_port ==
    LET free == {port \in PfPorts : is_port_free(port)}
    IN  IF free = {} THEN 0 ELSE CHOOSE port \in free : \A o \in free : port <= o

\* A process that has ended holds no port and forwards for nobody.
Exited == [name |-> "-", port |-> 0, state |-> "exited"]

\* A faulty variant of _kill_pid: no signal is sent.
kill_pid_noop(ch, pid) == ch

\* _kill_pid: SIGTERM, then SIGKILL if the process is still there; a pid
\* that is no process is left alone.
kill_pid(ch, pid) ==
    IF pid \in 1..Len(ch) THEN [ch EXCEPT ![pid] = Exited] ELSE ch

\* A faulty variant of the unlink of pf_stop_all: the pidfile is kept.
unlink_keep(files, name) == files

\* f.unlink(missing_ok=True).
unlink(files, name) == [files EXCEPT ![name] = NoFile]

\* pf_start: _load_pf, then the port (local_port, 0 for None, or the scan).
Pf_start_load(p, name, local_port) ==
    /\ PfFree(p)
    /\ LET r == [PfIdleProc EXCEPT !.op = "start", !.name = name]
           existing == pfFiles[name]
           lp == IF local_port # 0 THEN local_port ELSE next_free_port
       IN  pfProc' = PfBegin(p,
                        IF existing # NoFile
                        THEN PfFinish([r EXCEPT !.port = existing.port], "already-forwarding")
                        ELSE IF lp = 0 THEN PfFinish(r, "500")
                        ELSE [r EXCEPT !.pc = "spawn", !.lp = lp])
    /\ pfCalls' = pfCalls + 1
    /\ UNCHANGED <<apiVars, pureVars, pfFiles, children, pfHeld>>

\* subprocess.Popen(kubectl port-forward ...).
Pf_start_spawn(p) ==
    /\ pfProc[p].op = "start" /\ pfProc[p].pc = "spawn"
    /\ children' = Append(children, [name |-> pfProc[p].name, port |-> pfProc[p].lp,
                                     state |-> "starting"])
    /\ pfProc' = [pfProc EXCEPT ![p] = [@ EXCEPT !.pc = "poll", !.pid = Len(children) + 1]]
    /\ UNCHANGED <<apiVars, pureVars, pfFiles, pfHeld, pfCalls>>

\* The readiness loop: the child has exited, or the port accepts a
\* connection, or the twenty polls pass with neither.
Pf_start_poll(p) ==
    /\ pfProc[p].op = "start" /\ pfProc[p].pc = "poll"
    /\ pfProc' = [pfProc EXCEPT ![p] =
                     IF ~Alive(pfProc[p].pid) THEN [@ EXCEPT !.pc = "kill"]
                     ELSE IF ~is_port_free(pfProc[p].lp) THEN [@ EXCEPT !.pc = "save"]
                     ELSE [@ EXCEPT !.pc = "kill"]]
    /\ UNCHANGED <<apiVars, pureVars, pfFiles, children, pfHeld, pfCalls>>

\* if not ok: proc.stderr.read() returns at end of file, which is when the
\* child has ended; then _kill_pid(proc.pid) and the 500.
Pf_start_kill(p) ==
    /\ pfProc[p].op = "start" /\ pfProc[p].pc = "kill"
    /\ ~Alive(pfProc[p].pid)
    /\ children' = kill_pid(children, pfProc[p].pid)
    /\ pfProc' = [pfProc EXCEPT ![p] = PfFinish(@, "500")]
    /\ UNCHANGED <<apiVars, pureVars, pfFiles, pfHeld, pfCalls>>

\* _save_pf(name, proc.pid, lp) and the answer.
Pf_start_save(p) ==
    /\ pfProc[p].op = "start" /\ pfProc[p].pc = "save"
    /\ pfFiles' = [pfFiles EXCEPT ![pfProc[p].name] =
                       [pid |-> pfProc[p].pid, port |-> pfProc[p].lp]]
    /\ pfProc' = [pfProc EXCEPT ![p] = PfFinish([@ EXCEPT !.port = pfProc[p].lp], "forwarding")]
    /\ UNCHANGED <<apiVars, pureVars, children, pfHeld, pfCalls>>

\* The names of S as the sequence PF_DIR.glob yields, in a fixed order.
RECURSIVE GlobOf(_)
GlobOf(S) ==
    IF S = {} THEN <<>>
    ELSE LET n == CHOOSE x \in S : TRUE
         IN  <<n>> \o GlobOf(S \ {n})

\* pf_stop_all: PF_DIR.glob("*.json").
Pf_stop_list(p) ==
    /\ PfFree(p)
    /\ LET found == {n \in Names : pfFiles[n] # NoFile}
           r == [PfIdleProc EXCEPT !.op = "stop_all", !.todo = GlobOf(found),
                                   !.listed = {[name |-> n, pid |-> pfFiles[n].pid] : n \in found}]
       IN  pfProc' = PfBegin(p, IF found = {} THEN PfFinish(r, "stopped-all")
                                ELSE [r EXCEPT !.pc = "stop_kill"])
    /\ pfCalls' = pfCalls + 1
    /\ UNCHANGED <<apiVars, pureVars, pfFiles, children, pfHeld>>

\* info = json.loads(f.read_text()); _kill_pid(info["pid"]): a file that is
\* gone makes the read raise and info keeps what it held.
Pf_stop_kill(p) ==
    /\ pfProc[p].op = "stop_all" /\ pfProc[p].pc = "stop_kill"
    /\ LET name == Head(pfProc[p].todo)
           f == pfFiles[name]
       IN  IF f # NoFile
           THEN /\ children' = kill_pid(children, f.pid)
                /\ pfProc' = [pfProc EXCEPT ![p] =
                                 [@ EXCEPT !.pc = "stop_unlink", !.info = name, !.pid = f.pid]]
           ELSE /\ children' = children
                /\ pfProc' = [pfProc EXCEPT ![p] = [@ EXCEPT !.pc = "stop_unlink"]]
    /\ UNCHANGED <<apiVars, pureVars, pfFiles, pfHeld, pfCalls>>

\* f.unlink(missing_ok=True); stopped.append(info.get("name", f.stem)): an
\* info never bound is a NameError.
Pf_stop_unlink(p) ==
    /\ pfProc[p].op = "stop_all" /\ pfProc[p].pc = "stop_unlink"
    /\ pfFiles' = unlink(pfFiles, Head(pfProc[p].todo))
    /\ pfProc' = [pfProc EXCEPT ![p] =
                     IF pfProc[p].info = "-" THEN PfFinish(@, "uncaught")
                     ELSE LET r == [@ EXCEPT !.stopped = Append(@, pfProc[p].info),
                                             !.todo = Tail(@), !.pc = "stop_kill"]
                          IN  IF r.todo = <<>> THEN PfFinish(r, "stopped-all") ELSE r]
    /\ UNCHANGED <<apiVars, pureVars, children, pfHeld, pfCalls>>

\* kubectl binds its local port, when nothing else holds it.
Child_bind(pid) ==
    /\ children[pid].state = "starting"
    /\ is_port_free(children[pid].port)
    /\ children' = [children EXCEPT ![pid].state = "listening"]
    /\ UNCHANGED <<apiVars, pureVars, pfFiles, pfHeld, pfProc, pfCalls>>

\* kubectl exits by itself: no such pod, the port is taken, the connection
\* is lost.
Child_exit(pid) ==
    /\ Alive(pid)
    /\ children' = [children EXCEPT ![pid] = Exited]
    /\ UNCHANGED <<apiVars, pureVars, pfFiles, pfHeld, pfProc, pfCalls>>

\* The sessions of S as an earlier run of the service left them: the i-th
\* name of S forwards on port i, its child listening and its pidfile written.
SessionsOf(S) ==
    LET names == GlobOf(S)
    IN  [files |-> [n \in Names |->
                      IF n \in S
                      THEN LET i == CHOOSE k \in 1..Len(names) : names[k] = n
                           IN  [pid |-> i, port |-> i]
                      ELSE NoFile],
         children |-> [i \in 1..Len(names) |->
                         [name |-> names[i], port |-> i, state |-> "listening"]]]

\* PF_DIR outlives the service: the registry starts with any set of
\* sessions, and other processes hold any of the remaining ports.
InitPf ==
    /\ ApiIdle /\ configOk = TRUE /\ reachable = TRUE
    /\ AdIdle /\ SnapIdle /\ ParseIdle
    /\ \E S \in SUBSET Names :
          /\ pfFiles = SessionsOf(S).files
          /\ children = SessionsOf(S).children
          /\ pfHeld \in SUBSET (PfPorts \ {i \in PfPorts : i <= Cardinality(S)})
    /\ pfProc = [p \in Procs |-> PfIdleProc]
    /\ pfCalls = 0

NextPf ==
    \/ \E p \in Procs, name \in Names, local_port \in {0} \cup PfPorts :
          Pf_start_load(p, name, local_port)
    \/ \E p \in Procs : Pf_start_spawn(p)
    \/ \E p \in Procs : Pf_start_poll(p)
    \/ \E p \in Procs : Pf_start_kill(p)
    \/ \E p \in Procs : Pf_start_save(p)
    \/ \E p \in Procs : Pf_stop_list(p)
    \/ \E p \in Procs : Pf_stop_kill(p)
    \/ \E p \in Procs : Pf_stop_unlink(p)
    \/ \E pid \in Pids : Child_bind(pid)
    \/ \E pid \in Pids : Child_exit(pid)

SpecPf == InitPf /\ [][NextPf]_vars

Init ==
    /\ ApiIdle
    /\ configOk \in BOOLEAN
    /\ reachable \in BOOLEAN
    /\ AdIdle /\ SnapIdle /\ ParseIdle /\ PfIdle

Next ==
    \/ \E p \in Procs, rq \in Requests : Submit_check(p, rq[1], rq[2])
    \/ \E p \in Procs : Submit_save(p)
    \/ \E p \in Procs, rq \in Requests : Deploy_check(p, rq[1], rq[2])
    \/ \E p \in Procs : Deploy_save(p)
    \/ \E p \in Procs, name \in Names : DeployFromDb_get(p, name)
    \/ \E p \in Procs : DeployFromDb_check(p)
    \/ \E p \in Procs : Create_namespace(p)
    \/ \E p \in Procs : Create_pod(p)
    \/ \E p \in Procs : Get_phase(p)
    \/ \E p \in Procs : Set_deployed(p)
    \/ \E p \in Procs : Admin_list(p)
    \/ \E p \in Procs : Admin_record(p)
    \/ \E p \in Procs, name \in Names : Cleanup_delete_pod(p, name)
    \/ \E p \in Procs : Cleanup_delete_namespace(p)
    \/ \E p \in Procs : Cleanup_delete_student(p)
    \/ \E name \in Names : PodPhaseChange(name)
    \/ ReachabilityChange
    \/ ConfigChange
    \/ Restart

Spec == Init /\ [][Next]_vars

(***************************************************************************)
(* Properties of the bulk resync (admin_students).                         *)
(***************************************************************************)
\* Worker p does one round of the listing's loop in this step.
AdminStep(p) ==
    /\ proc[p].op = "admin_students" /\ proc[p].pc = "sync"
    /\ proc'[p].todo # proc[p].todo \/ proc'[p].pc = "done"

\* The view appended by the round.
NewView(p) == proc'[p].out[Len(proc'[p].out)]

\* The round finds the cluster unreachable: the accessibility check failed, or
\* the fetch of the record's phase raises.
OutageSeen(p) ==
    \/ ~proc[p].accessible
    \/ get_pod_status(Head(proc[p].todo).name).exc # "none"

StatusesOf(st, name) == {d.status : d \in Matching(st, name)}
ErrorsOf(st, name) == {d.last_error : d \in Matching(st, name)}
Others(st, name) == {d \in st : d.name # name}

\* C1: during the admin listing's resync, a round that finds the cluster
\* unreachable (by the initial accessibility check or by a failing phase fetch)
\* changes no persisted record and reports the record's live phase as
\* "Cluster Down", never "Not Found".
C1_OutageLeavesRecords ==
    [][\A p \in Procs :
          AdminStep(p) /\ OutageSeen(p)
             => store' = store /\ NewView(p).live_phase = "Cluster Down"]_vars

\* C2: a round of the resync that fetched the live phase from a reachable
\* cluster sets the persisted status as the transition table says: (pending,
\* Running) becomes deployed; (pending or deployed, Not Found) becomes failed
\* with the error "Pod not found"; every other pair leaves the store as it was.
\* No other record is touched.
C2_ResyncFollowsTable ==
    [][\A p \in Procs :
          AdminStep(p) /\ ~OutageSeen(p)
             => LET d == Head(proc[p].todo)
                    phase == NewView(p).live_phase
                IN  /\ phase = get_pod_status(d.name).phase
                    /\ Others(store', d.name) = Others(store, d.name)
                    /\ Cardinality(Matching(store', d.name)) = Cardinality(Matching(store, d.name))
                    /\ IF d.status = "pending" /\ phase = "Running"
                       THEN StatusesOf(store', d.name) \subseteq {"deployed"}
                            /\ ErrorsOf(store', d.name) = ErrorsOf(store, d.name)
                       ELSE IF d.status \in {"pending", "deployed"} /\ phase = "Not Found"
                       THEN StatusesOf(store', d.name) \subseteq {"failed"}
                            /\ ErrorsOf(store', d.name) \subseteq {"Pod not found"}
                       ELSE store' = store]_vars

\* The resync has moved a pending record with a running pod to deployed, and
\* the store holds it so.
C2_Witness_PendingRunning ==
    \E p \in Procs :
        /\ proc[p].op = "admin_students" /\ proc[p].pc = "done"
        /\ proc[p].db_status = "pending"
        /\ proc[p].out # <<>>
        /\ LET v == proc[p].out[Len(proc[p].out)]
           IN  /\ v.live_phase = "Running" /\ v.status = "deployed"
               /\ StatusesOf(store, v.name) = {"deployed"}

(***************************************************************************)
(* Properties of provisioning (deploy, deploy_from_db).                    *)
(***************************************************************************)
\* Worker p makes a call to the cluster for a deploy-from-db in this step.
DeployFromDbClusterStep(p) ==
    /\ proc[p].op = "deploy_from_db"
    /\ proc[p].pc \in {"check", "create_ns", "create_pod", "get_phase"}
    /\ proc'[p].pc # proc[p].pc

ClusterUnreachable == EnsureRaises \/ ~reachable

\* C3: a deploy-from-db that finds the cluster unreachable at any of its steps
\* stops there, leaving the tenant's record with status pending and the
\* "Cluster unreachable" annotation, never failed.
C3_UnreachableLeavesPending ==
    [][\A p \in Procs :
          DeployFromDbClusterStep(p) /\ ClusterUnreachable
             => /\ proc'[p].pc = "done"
                /\ StatusesOf(store', proc[p].name) \subseteq {"pending"}
                /\ ErrorsOf(store', proc[p].name) \subseteq {"Cluster unreachable"}]_vars

\* Worker p runs a provision call that has passed the "pod not found" check
\* and has called create_namespace.
AttemptedCreation(p) ==
    /\ proc[p].op \in ProvisionOps /\ Busy(p)
    /\ proc[p].nsResp # "-"

\* C4: no two concurrent provision calls for the same name both pass the "pod
\* not found" check and both attempt the creation.
C4_NoDoubleCreation ==
    \A p, q \in Procs :
        p # q /\ AttemptedCreation(p) /\ AttemptedCreation(q)
            => proc[p].name # proc[q].name

\* Worker p's provision call returns in this step.
ProvisionFinishes(p) ==
    /\ proc[p].op \in ProvisionOps /\ Busy(p)
    /\ proc'[p].pc = "done"

\* C5: two callers racing to provision a name that has no pod both observe
\* success: a racer that met no cluster failure returns success and does not
\* leave the record failed.
C5_RacersBothSucceed ==
    [][\A p \in Procs :
          ProvisionFinishes(p) /\ proc[p].raced /\ proc'[p].failResp = "-"
             => /\ proc'[p].result = "ok"
                /\ "failed" \notin StatusesOf(store', proc[p].name)]_vars

\* C5 as amended: a racer returns success and leaves the record deployed, or
\* it is rejected with 409 by its own existence check (which saw the other
\* call's pod) and changes nothing, or one of its cluster calls failed for
\* another reason than "already exists".
C5_RacersFailOnlyForCause ==
    [][\A p \in Procs :
          ProvisionFinishes(p) /\ proc[p].raced
             => \/ /\ proc'[p].result = "ok"
                   /\ StatusesOf(store', proc[p].name) \subseteq {"deployed"}
                \/ /\ proc'[p].result = "409"
                   /\ proc[p].pc = "check"
                   /\ proc'[p].phase \in {"Pending", "Running", "Failed"}
                   /\ store' = store /\ namespaces' = namespaces /\ pods' = pods
                \/ proc'[p].failResp \in {"unreachable", "noconfig", "404"}]_vars

\* Two racers for one name have both returned success, one of them after the
\* cluster answered "already exists".
C5_Witness_BothSucceed ==
    \E p, q \in Procs :
        /\ p # q
        /\ proc[p].raced /\ proc[q].raced
        /\ proc[p].name = proc[q].name
        /\ proc[p].pc = "done" /\ proc[q].pc = "done"
        /\ proc[p].result = "ok" /\ proc[q].result = "ok"
        /\ proc[q].nsResp = "409" \/ proc[q].podResp = "409"

\* A call is handed to worker p in this step.
StartBy(p) ==
    /\ calls' = calls + 1
    /\ ~Busy(p)
    /\ \A q \in Procs : q < p => Busy(q)

\* Worker p runs the existence check of a provision call in this step.
ExistenceCheckStep(p) ==
    \/ StartBy(p) /\ proc'[p].op = "deploy"
    \/ proc[p].op = "deploy_from_db" /\ proc[p].pc = "check" /\ proc'[p].pc # "check"

\* C6: a provision call whose existence check finds the pod in any phase is
\* rejected with 409 at once; it creates no namespace and no pod and leaves the
\* store as it was.
C6_ExistingPodIsConflict ==
    [][\A p \in Procs :
          ExistenceCheckStep(p) /\ ~ClusterUnreachable /\ pods[proc'[p].name] # NoPod
             => /\ proc'[p].pc = "done" /\ proc'[p].result = "409"
                /\ store' = store /\ namespaces' = namespaces /\ pods' = pods]_vars

\* A provision call was rejected because of a pod that is not running.
C6_Witness_Rejected ==
    \E p \in Procs :
        /\ proc[p].op \in ProvisionOps /\ proc[p].pc = "done"
        /\ proc[p].result = "409"
        /\ proc[p].phase \in {"Pending", "Failed"}
        /\ proc[p].nsResp = "-" /\ proc[p].podResp = "-"

ConflictSeen(r) == r.nsResp = "409" \/ r.podResp = "409"

\* C7: a provision call that passed the existence check and to which
\* create-namespace or create-pod answered "already exists" succeeds (whenever
\* no cluster call of it failed otherwise), sets the record deployed, not
\* failed, and the store holds one record for the name: the upsert of deploy
\* leaves exactly one, and the call's last step adds and removes none.
C7_ConflictIsSuccess ==
    [][\A p \in Procs :
          /\ proc[p].op = "deploy" /\ proc[p].pc = "save" /\ proc'[p].pc # "save"
                => Cardinality(Matching(store', proc[p].name)) = 1
          /\ ProvisionFinishes(p) /\ ConflictSeen(proc'[p])
             /\ proc'[p].failResp \notin {"unreachable", "noconfig", "404"}
                => /\ proc'[p].result = "ok"
                   /\ StatusesOf(store', proc[p].name) \subseteq {"deployed"}
                   /\ Cardinality(Matching(store', proc[p].name)) <= 1
                   /\ Cardinality(Matching(store', proc[p].name))
                         = Cardinality(Matching(store, proc[p].name))]_vars

\* A provision call has succeeded after an "already exists" answer, and the
\* store holds the one record of its name, deployed.
C7_Witness_ConflictSucceeded ==
    \E p \in Procs :
        /\ proc[p].op \in ProvisionOps /\ proc[p].pc = "done"
        /\ ConflictSeen(proc[p])
        /\ proc[p].result = "ok"
        /\ Cardinality(Matching(store, proc[p].name)) = 1
        /\ StatusesOf(store, proc[p].name) = {"deployed"}

(***************************************************************************)
(* Properties of admission.                                                *)
(***************************************************************************)
\* C8: no spec is persisted and no namespace or pod exists unless an admission
\* check for that tenant's spec was performed and accepted.
C8_AdmissionGatesMutation ==
    /\ \A d \in store : <<d.name, d.input_numeric>> \in admitted
    /\ \A n \in Names :
          n \in namespaces \/ pods[n] # NoPod => \E rq \in admitted : rq[1] = n

\* C9: a step of a submission whose admission check was rejected leaves the
\* record store exactly as it was.
C9_RejectedSubmitLeavesStore ==
    [][\A p \in Procs :
          proc'[p].op = "submit" /\ proc'[p] # proc[p] /\ ~proc'[p].check.available
             => store' = store]_vars

\* A submission was rejected for lack of capacity and its name has no record.
C9_Witness_Rejected ==
    \E p \in Procs :
        /\ proc[p].op = "submit" /\ proc[p].pc = "done"
        /\ proc[p].result = "400"
        /\ proc[p].check.issues # <<>>
        /\ Matching(store, proc[p].name) = {}

\* C15: a record leaves the store only in the last step of a cleanup of its
\* name, and at that moment the name has neither pod nor namespace in the
\* cluster.
C15_RecordGoesWithPodAndNamespace ==
    [][\A name \in Names :
          Matching(store, name) # {} /\ Matching(store', name) = {}
             => /\ \E p \in Procs : /\ proc[p].op = "cleanup" /\ proc[p].name = name
                                    /\ proc[p].pc = "delete_student" /\ proc'[p].pc = "done"
                /\ pods'[name] = NoPod
                /\ name \notin namespaces']_vars

\* Worker p acts on the record of name in this step, having observed the
\* pod of name in phase Running: a provision call with the phase it fetched
\* after creation, or a round of the admin listing with the phase it fetched.
ObservedRunning(p, name) ==
    \/ /\ proc[p].op \in ProvisionOps /\ proc[p].pc = "set_deployed"
       /\ proc[p].name = name /\ proc[p].phase = "Running"
    \/ /\ proc[p].op = "admin_students" /\ proc[p].pc = "sync"
       /\ Head(proc[p].todo).name = name
       /\ proc'[p].out # proc[p].out /\ NewView(p).live_phase = "Running"

\* C24: a record becomes deployed only in a step of a call that observed the
\* pod of its name in phase Running.
C24_DeployedOnlyWhenRunning ==
    [][\A name \in Names :
          /\ \E d \in Matching(store', name) : d.status = "deployed"
          /\ \A d \in Matching(store, name) : d.status # "deployed"
          => \E p \in Procs : ObservedRunning(p, name)]_vars

\* C25: a provision call creates the pod of a name only while the name has
\* a record, and its closing status update finds the record of the pod it
\* created, whatever cleanup does in between.
C25_CreatedPodHasRecord ==
    [][\A p \in Procs :
          /\ (/\ proc[p].op \in ProvisionOps /\ proc[p].pc = "create_pod"
              /\ pods[proc[p].name] = NoPod /\ pods'[proc[p].name] # NoPod)
                => Matching(store', proc[p].name) # {}
          /\ (/\ proc[p].op \in ProvisionOps /\ proc[p].pc = "set_deployed"
              /\ proc'[p].pc = "done" /\ pods[proc[p].name] # NoPod)
                => Matching(store', proc[p].name) # {}]_vars

\* Worker p's provision call makes its create-namespace call in this step
\* and the call fails with something else than 'already exists'.
NamespaceCreationFails(p) ==
    /\ proc[p].op \in ProvisionOps /\ proc[p].pc = "create_ns" /\ proc'[p].pc # "create_ns"
    /\ proc'[p].nsResp \notin {"201", "409"}

\* The same for its create-pod call.
PodCreationFails(p) ==
    /\ proc[p].op \in ProvisionOps /\ proc[p].pc = "create_pod" /\ proc'[p].pc # "create_pod"
    /\ proc'[p].podResp \notin {"201", "409"}

\* C21: when the create-namespace or create-pod call of a provision call
\* fails with anything but 'already exists', the call ends with the 500 in
\* that step, the record of the name then has status failed and the error
\* text as its last error, no other record changes, and the cluster is left
\* as it was.
C21_CreationFailureMarksFailed ==
    [][\A p \in Procs :
          NamespaceCreationFails(p) \/ PodCreationFails(p)
             => /\ proc'[p].pc = "done" /\ proc'[p].result = "500"
                /\ \A d \in Matching(store', proc[p].name) :
                      d.status = "failed" /\ d.last_error = "K8s error"
                /\ Matching(store, proc[p].name) # {} => Matching(store', proc[p].name) # {}
                /\ \A n \in Names \ {proc[p].name} : Matching(store', n) = Matching(store, n)
                /\ namespaces' = namespaces /\ pods' = pods]_vars

\* A provision call whose create call the cluster did not answer has ended
\* with the 500, and its record is failed with the error as last error.
C21_Witness_CreationFailed ==
    \E p \in Procs :
        /\ proc[p].op \in ProvisionOps /\ proc[p].pc = "done" /\ proc[p].result = "500"
        /\ proc[p].nsResp = "unreachable" \/ proc[p].podResp = "unreachable"
        /\ \E d \in Matching(store, proc[p].name) :
              d.status = "failed" /\ d.last_error = "K8s error"

(***************************************************************************)
(* The admission decision alone: check_resources_available applied to any  *)
(* requested triple and any snapshot (available may be negative).  The     *)
(* requested cpu is in 1/CpuUnit millicores, the available cpu in          *)
(* millicores.                                                             *)
(***************************************************************************)
AdRequested == 1..MaxQty
AdRequestedCpu == 1..(MaxQty * CpuUnit)
AdAvailable == (-1)..MaxQty

InitAdmission ==
    /\ ApiIdle /\ configOk = TRUE /\ reachable = TRUE
    /\ adReq \in [cpu : AdRequestedCpu, memory : AdRequested, storage : AdRequested]
    /\ adAvail \in [cpu : AdAvailable, memory : AdAvailable, storage : AdAvailable]
    /\ adResult = NoCheck
    /\ SnapIdle /\ ParseIdle /\ PfIdle

Admission_check ==
    /\ adResult = NoCheck
    /\ adResult' = check_resources_available(
                      [ok |-> TRUE, exc |-> "none", total |-> NoSpec, used |-> NoSpec,
                       available |-> adAvail],
                      adReq)
    /\ UNCHANGED <<store, namespaces, pods, k8sInit, configOk, reachable, proc, calls,
                   admitted, adReq, adAvail, snapVars, parseVars, pfVars>>

NextAdmission == Admission_check

SpecAdmission == InitAdmission /\ [][NextAdmission]_vars

\* The axes on which the request exceeds what is available.
FailingAxes ==
    {ax \in {"CPU", "Memory", "Storage"} :
        \/ ax = "CPU" /\ adReq.cpu > adAvail.cpu * CpuUnit
        \/ ax = "Memory" /\ adReq.memory > adAvail.memory
        \/ ax = "Storage" /\ adReq.storage > adAvail.storage}

\* C10: for every requested triple and every snapshot, the check accepts
\* exactly when no axis's request exceeds the available amount, and its
\* shortfalls list holds exactly the axes whose request exceeds it, each once.
C10_ShortfallsAreFailingAxes ==
    adResult # NoCheck
        => /\ adResult.available = (FailingAxes = {})
           /\ {adResult.issues[i] : i \in 1..Len(adResult.issues)} = FailingAxes
           /\ Len(adResult.issues) = Cardinality(FailingAxes)
           /\ ~adResult.failed

(***************************************************************************)
(* The capacity snapshot alone: get_cluster_resources and                  *)
(* check_resources_available applied to any node list and pod list.        *)
(***************************************************************************)
NodeSmall == [cpu |-> Q(1, ""), memory |-> Q(512, "Mi"), storage |-> Q(1, "Gi")]
\* A node whose memory is no quantity the parser reads.
NodeBad == [cpu |-> Q(2, ""), memory |-> Q(1, "x"), storage |-> Q(4, "Gi")]
NodeChoices == {NodeAllocatable, NodeSmall, NodeBad}

ReqOne == [cpu |-> Q(1500, "m"), memory |-> Q(512, "Mi"), storage |-> Q(1, "Gi")]
\* A container that requests cpu only.
ReqTwo == [cpu |-> Q(1, ""), memory |-> Q(0, ""), storage |-> Q(0, "")]
ReqBad == [cpu |-> Q(1, "x"), memory |-> Q(512, "Mi"), storage |-> Q(1, "Gi")]
PodChoices ==
    [namespace : {"a", "kube-system"},
     phase : {"Running", "Pending", "Succeeded"},
     containers : {<<ReqOne, ReqTwo>>, <<ReqBad>>}]

\* The sequences over S of length at most n.
SeqsUpTo(S, n) == UNION {[1..k -> S] : k \in 0..n}

InitSnapshot ==
    /\ ApiIdle /\ configOk = TRUE /\ reachable = TRUE
    /\ AdIdle /\ ParseIdle /\ PfIdle
    /\ snNodes \in SeqsUpTo(NodeChoices, MaxNodes)
    /\ snPods \in SeqsUpTo(PodChoices, MaxPods)
    /\ snApi \in {"ok", "unreachable", "noconfig"}
    /\ snSnap = NoSnap
    /\ snCheck = NoCheck

\* check_resources_available for SpecSmall, and the snapshot it was given.
Snapshot_check ==
    /\ snSnap = NoSnap
    /\ snSnap' = get_cluster_resources_from(snApi, snNodes, snPods)
    /\ snCheck' = check_resources_available(snSnap', SpecSmall)
    /\ UNCHANGED <<apiVars, adVars, snNodes, snPods, snApi, parseVars, pfVars>>

NextSnapshot == Snapshot_check

SpecSnapshot == InitSnapshot /\ [][NextSnapshot]_vars

\* The snapshot cannot be obtained: the cluster is unreachable, there is no
\* node, or a quantity it reads fails to parse.
SnapshotUnobtainable ==
    \/ snApi # "ok"
    \/ snNodes = <<>>
    \/ \E ax \in {"cpu", "memory", "storage"} : snNodes[1][ax].u = "x"
    \/ \E i \in 1..Len(snPods) :
          /\ snPods[i].namespace = "a" /\ snPods[i].phase # "Succeeded"
          /\ snPods[i].containers = <<ReqBad>>

\* C11: when the capacity snapshot cannot be obtained (cluster unreachable, no
\* node, a quantity that fails to parse), check_resources_available raises
\* nothing: it answers available = FALSE with the one message that describes
\* the failure and no per-axis entry.  It raises in no other case either.
C11_FailedSnapshotIsRejection ==
    snSnap # NoSnap
        => /\ snCheck.raised = "none"
           /\ SnapshotUnobtainable
                 => /\ ~snCheck.available
                    /\ snCheck.failed
                    /\ snCheck.message = "Failed to check cluster resources"
                    /\ snCheck.issues = <<>>

\* The check has answered a snapshot that failed on a quantity of a counted
\* pod, the cluster being reachable and having a node.
C11_Witness_ParseFailure ==
    /\ snSnap # NoSnap
    /\ snApi = "ok" /\ snNodes # <<>> /\ snNodes[1] = NodeAllocatable
    /\ snSnap.exc = "ValueError"
    /\ snCheck.failed /\ ~snCheck.available

(***************************************************************************)
(* Properties of port forwarding.                                          *)
(***************************************************************************)
\* The live kubectl processes that forward for name.
LiveFor(name) == {pid \in Pids : Alive(pid) /\ children[pid].name = name}

\* C12: at most one live forwarding process exists per tenant name at any
\* time, under any interleaving of the start calls for that name.
C12_OneLiveSessionPerName ==
    \A name \in Names : Cardinality(LiveFor(name)) <= 1

\* Worker p's stop_all returns in this step.
StopAllReturns(p) ==
    /\ PfBusy(p) \/ (PfFree(p) /\ pfCalls' # pfCalls)
    /\ pfProc'[p].op = "stop_all" /\ pfProc'[p].pc = "done"

\* The names a stop_all answered with.
StoppedNames(r) == {r.stopped[i] : i \in 1..Len(r.stopped)}

\* C13: a stop_all that ran with no other call beside it answers with exactly
\* the names of the sessions the registry held, each once; each of those
\* sessions' processes has ended and the registry is empty when it returns.
\* A start that finds no entry for its name never answers with an old port:
\* it spawns, or fails for want of a port.
C13_StopAllEmptiesRegistry ==
    [][\A p \in Procs :
          /\ StopAllReturns(p) /\ pfProc'[p].alone
                => /\ pfProc'[p].result = "stopped-all"
                   /\ StoppedNames(pfProc'[p]) = {s.name : s \in pfProc'[p].listed}
                   /\ Len(pfProc'[p].stopped) = Cardinality(pfProc'[p].listed)
                   /\ \A s \in pfProc'[p].listed : ~Alive(s.pid)'
                   /\ \A n \in Names : pfFiles'[n] = NoFile
          /\ (/\ PfFree(p) /\ pfCalls' # pfCalls /\ pfProc'[p].op = "start"
              /\ pfFiles[pfProc'[p].name] = NoFile)
                => \/ pfProc'[p].pc = "spawn"
                   \/ pfProc'[p].pc = "done" /\ pfProc'[p].result = "500"]_vars

\* Two sessions were registered, a stop_all removed them, and the start that
\* followed for one of the names has spawned a fresh process (the third) and
\* registered it; the other name has no entry and both old processes have
\* ended.
C13_Witness_FreshStartAfterStopAll ==
    \E p \in Procs, other \in Names :
        /\ pfCalls = 2
        /\ pfProc[p].op = "start" /\ pfProc[p].pc = "done"
        /\ pfProc[p].result = "forwarding" /\ pfProc[p].pid = 3
        /\ other # pfProc[p].name /\ pfFiles[other] = NoFile
        /\ pfFiles[pfProc[p].name].pid = 3
        /\ Alive(3) /\ ~Alive(1) /\ ~Alive(2)

\* The handlers keep running once called; a kubectl child is under no
\* obligation to bind its port or to exit.
SpecPfLive ==
    /\ SpecPf
    /\ \A p \in Procs :
          /\ WF_vars(Pf_start_spawn(p)) /\ WF_vars(Pf_start_poll(p))
          /\ WF_vars(Pf_start_kill(p)) /\ WF_vars(Pf_start_save(p))
          /\ WF_vars(Pf_stop_kill(p)) /\ WF_vars(Pf_stop_unlink(p))

\* C14: every start that fails answers with an error: a start that has left
\* its readiness loop without the port accepting a connection (the child
\* exited, or the polls ran out) goes on to return the 500.
C14_FailedStartReturnsError ==
    \A p \in Procs :
        (pfProc[p].op = "start" /\ pfProc[p].pc = "kill")
            ~> (pfProc[p].pc = "done" /\ pfProc[p].result = "500")

\* Worker p's start finds its port ready in this step of the readiness loop.
StartReady(p) ==
    pfProc[p].op = "start" /\ pfProc[p].pc = "poll" /\ pfProc'[p].pc = "save"

\* Worker p's start writes its registry entry in this step.
StartRecords(p) ==
    pfProc[p].op = "start" /\ pfProc[p].pc = "save" /\ pfProc'[p].pc = "done"

\* C22: a start takes its port for ready only when its own child has opened
\* it (a child whose bind failed makes the start fail), and the entry it
\* records holds a port no other registry entry holds.
C22_RecordedPortIsOwnChilds ==
    [][\A p \in Procs :
          /\ StartReady(p)
                => /\ children[pfProc[p].pid].state = "listening"
                   /\ children[pfProc[p].pid].port = pfProc[p].lp
          /\ StartRecords(p)
                => \A n \in Names \ {pfProc[p].name} :
                      pfFiles'[n] # NoFile => pfFiles'[n].port # pfProc[p].lp]_vars

\* Worker p's start answers with a port in this step: that of the session
\* it started, or that of the entry it found.
StartAnswersPort(p) ==
    /\ PfBusy(p) \/ (PfFree(p) /\ pfCalls' # pfCalls)
    /\ pfProc'[p].op = "start" /\ pfProc'[p].pc = "done"
    /\ pfProc'[p].result \in {"forwarding", "already-forwarding"}

\* C26: whenever a start answers with a port for a name, a kubectl process
\* forwarding for that name is alive and listening on that port.
C26_AnsweredPortIsLive ==
    [][\A p \in Procs :
          StartAnswersPort(p)
             => \E pid \in Pids :
                   /\ children[pid].state = "listening"
                   /\ children[pid].name = pfProc'[p].name
                   /\ children[pid].port = pfProc'[p].port]_vars

\* C23: the waits of the handlers are bounded: every start call and every
\* stop_all call returns, whatever the kubectl children do.
C23_ForwardingCallsReturn ==
    \A p \in Procs : PfBusy(p) ~> ~PfBusy(p)

(***************************************************************************)
(* The quantity parsers alone, each applied to any quantity string.        *)
(***************************************************************************)
\* Numerals at and around the points where a conversion's quotient changes.
BoundaryNumerals ==
    {500, 1000, 1023, Ki, 1025, 2 * Ki - 1, 2 * Ki,
     Ki * Ki - 1, Ki * Ki, 2 * Ki * Ki + 1, Ki * Ki * Ki - 1, Ki * Ki * Ki,
     -500, -1023, -Ki, -1025, -(Ki * Ki)}

Numerals == (-MaxNumeral..MaxNumeral) \cup BoundaryNumerals

\* "x" stands for any suffix none of the parsers knows.
Suffixes == {"", "m", "x"} \cup BinarySuffixes

Axes == {"cpu", "memory", "storage"}

\* The parser multiplies the numeral of q.
Multiplies(axis, q) ==
    \/ axis = "cpu" /\ q.u = ""
    \/ axis = "memory" /\ q.u \in {"Gi", "Ti"}
    \/ axis = "storage" /\ q.u = "Ti"

\* The inputs of the parser-only model: a product stays below 2^31.
ParseInputs ==
    {i \in [axis : Axes, q : [n : Numerals, u : Suffixes]] :
        Multiplies(i.axis, i.q) => (i.q.n <= 1025 /\ i.q.n >= -1025)}

parse_raises(axis, q) ==
    IF axis = "cpu" THEN parse_cpu_raises(q)
    ELSE IF axis = "memory" THEN parse_memory_raises(q)
    ELSE parse_storage_raises(q)

parse_value(axis, q) ==
    IF axis = "cpu" THEN parse_cpu_to_millicores(q)
    ELSE IF axis = "memory" THEN parse_memory_to_mi(q)
    ELSE parse_storage_to_gi(q)

InitParse ==
    /\ ApiIdle /\ configOk = TRUE /\ reachable = TRUE
    /\ AdIdle /\ SnapIdle /\ PfIdle
    /\ pq \in ParseInputs
    /\ pResult = NoParse

\* One call of the parser of pq.axis on pq.q.
Parse_call ==
    /\ ~pResult.done
    /\ pResult' = IF parse_raises(pq.axis, pq.q)
                  THEN [raises |-> TRUE, value |-> 0, done |-> TRUE]
                  ELSE [raises |-> FALSE, value |-> parse_value(pq.axis, pq.q), done |-> TRUE]
    /\ UNCHANGED <<apiVars, adVars, snapVars, pq, pfVars>>

NextParse == Parse_call

SpecParse == InitParse /\ [][NextParse]_vars

\* The suffixes that make a well-formed quantity for the parser of an axis.
KnownSuffixes(axis) == IF axis = "cpu" THEN {"", "m"} ELSE BinarySuffixes \cup {""}

\* C16: a parser returns a non-negative integer or raises; a negative-signed
\* input and an input with a suffix the parser does not know always raise.
C16_ParsersNeverNegative ==
    pResult.done
        => /\ pResult.raises \/ pResult.value >= 0
           /\ (pq.q.n < 0 \/ pq.q.u \notin KnownSuffixes(pq.axis)) => pResult.raises

\* v is n / d truncated toward zero, for n >= 0 and d > 0.
IsTruncated(v, n, d) == v >= 0 /\ v * d <= n /\ n - v * d < d

OnAxis(r, axis) ==
    IF axis = "cpu" THEN r.cpu ELSE IF axis = "memory" THEN r.memory ELSE r.storage

\* The allocatable capacity of the nodes i..Len(snNodes), summed on an axis.
RECURSIVE AllocatableFrom(_, _)
AllocatableFrom(i, axis) ==
    IF i > Len(snNodes) THEN 0
    ELSE parse_value(axis, OnAxis(snNodes[i], axis)) + AllocatableFrom(i + 1, axis)

\* C18: the total of a snapshot is, on each axis, the sum of the allocatable
\* capacity of all the nodes of the cluster.
C18_TotalSumsAllNodes ==
    snSnap.ok /\ (\A i \in 1..Len(snNodes) : ~QuantitiesRaise(snNodes[i]))
        => \A axis \in Axes : OnAxis(snSnap.total, axis) = AllocatableFrom(1, axis)

\* The containers <<pod, container>> of the pods that hold resources: phase
\* Running or Pending, namespace none of the three system namespaces.
HoldingContainers ==
    {c \in UNION {{<<i, j>> : j \in 1..Len(snPods[i].containers)} : i \in 1..Len(snPods)} :
        /\ snPods[c[1]].phase = "Running" \/ snPods[c[1]].phase = "Pending"
        /\ snPods[c[1]].namespace # "kube-system"
        /\ snPods[c[1]].namespace # "kube-public"
        /\ snPods[c[1]].namespace # "kube-node-lease"}

\* The requests of the containers of S summed on an axis.
RECURSIVE RequestedBy(_, _)
RequestedBy(S, axis) ==
    IF S = {} THEN 0
    ELSE LET c == CHOOSE x \in S : TRUE
         IN  parse_value(axis, OnAxis(snPods[c[1]].containers[c[2]], axis))
                + RequestedBy(S \ {c}, axis)

\* C19: in every snapshot obtained, on each axis, used is the sum of the
\* requests of the containers of exactly the pods that are Running or Pending
\* outside the system namespaces, and available is total minus used, also
\* when that is negative.
C19_AvailableIsTotalMinusUsed ==
    snSnap.ok
        => \A axis \in Axes :
              /\ OnAxis(snSnap.used, axis) = RequestedBy(HoldingContainers, axis)
              /\ OnAxis(snSnap.available, axis)
                    = OnAxis(snSnap.total, axis) - RequestedBy(HoldingContainers, axis)

\* A snapshot was obtained of a cluster with a pending pod that counts and a
\* pod that does not, and its available cpu is negative.
C19_Witness_NegativeAvailable ==
    /\ snSnap.ok
    /\ snSnap.available.cpu < 0
    /\ \E i \in 1..Len(snPods) : Counted(snPods[i]) /\ snPods[i].phase = "Pending"
    /\ \E i \in 1..Len(snPods) : ~Counted(snPods[i])

(***************************************************************************)
(* Admission followed by provisioning: every tenant submits and is then    *)
(* deployed from its record, against a cluster that answers.               *)
(***************************************************************************)
\* Each tenant asks for 1.5 cores: one such request fits the cluster's
\* capacity, two do not.
OvercommitRequests == {<<n, SpecBig>> : n \in Names}

\* Two calls lie ahead for each tenant, a submit and a deploy-from-db: the
\* count of calls starts that far below its bound.
InitOvercommit ==
    /\ store = {}
    /\ namespaces = {}
    /\ pods = [n \in Names |-> NoPod]
    /\ k8sInit = FALSE
    /\ proc = [p \in Procs |-> IdleProc]
    /\ calls = MaxCalls - 2 * Cardinality(Names)
    /\ admitted = {}
    /\ configOk = TRUE /\ reachable = TRUE
    /\ AdIdle /\ SnapIdle /\ ParseIdle /\ PfIdle

NextOvercommit ==
    \/ \E p \in Procs, rq \in OvercommitRequests : Submit_check(p, rq[1], rq[2])
    \/ \E p \in Procs : Submit_save(p)
    \/ \E p \in Procs, name \in Names : DeployFromDb_get(p, name)
    \/ \E p \in Procs : DeployFromDb_check(p)
    \/ \E p \in Procs : Create_namespace(p)
    \/ \E p \in Procs : Create_pod(p)
    \/ \E p \in Procs : Get_phase(p)
    \/ \E p \in Procs : Set_deployed(p)

SpecOvercommit == InitOvercommit /\ [][NextOvercommit]_vars

\* The capacity of the cluster with no pod in it.
EmptyCluster == get_cluster_resources(ClusterNodes, <<>>).available

\* spec fits the capacity cap on every axis.
FitsIn(spec, cap) ==
    /\ requested_cpu_m(spec) <= cap.cpu
    /\ spec.memory <= cap.memory
    /\ spec.storage <= cap.storage

\* C20: admission reads and decides, it reserves nothing: while the cluster
\* holds no pod, a submitted request (each of them fits the capacity on its
\* own) is accepted, whatever has been accepted or stored before it, and the check
\* changes nothing in the cluster.
C20_AdmissionReservesNothing ==
    [][\A p \in Procs :
          (/\ Free(p) /\ calls' # calls /\ proc'[p].op = "submit"
           /\ \A n \in Names : pods[n] = NoPod
           /\ \A rq \in OvercommitRequests : FitsIn(rq[2], EmptyCluster))
             => /\ proc'[p].check.available
                /\ pods' = pods /\ namespaces' = namespaces]_vars

\* Both tenants were accepted and both pods exist; either request fits the
\* capacity there was, and the two together exceed it.
C20_Witness_BothAdmittedBothCreated ==
    /\ \A n \in Names : <<n, SpecBig>> \in admitted /\ pods[n] # NoPod
    /\ FitsIn(SpecBig, EmptyCluster)
    /\ 2 * requested_cpu_m(SpecBig) > EmptyCluster.cpu

(***************************************************************************)
(* The cpu round trip alone: a request's cpu as check_resources_available  *)
(* counts it, and as the pod requests it once to_k8s_resources has written *)
(* it and the snapshot's parser has read it back.                          *)
(***************************************************************************)
\* The cpu values in steps of one millicore, in 1/CpuUnit millicores.
CpuValues == {m * CpuUnit : m \in 1..MaxMillicores}

InitRoundTrip ==
    /\ ApiIdle /\ configOk = TRUE /\ reachable = TRUE
    /\ adReq \in [cpu : CpuValues, memory : {SpecSmall.memory}, storage : {SpecSmall.storage}]
    /\ adAvail = NoSpec /\ adResult = NoCheck
    /\ SnapIdle /\ ParseIdle /\ PfIdle

\* to_k8s_resources of the request, and _parse_cpu_to_millicores of its cpu
\* string.
RoundTrip_call ==
    /\ ~pResult.done
    /\ LET q == to_k8s_resources(adReq).cpu
       IN  /\ pq' = [axis |-> "cpu", q |-> q]
           /\ pResult' = IF parse_cpu_raises(q)
                         THEN [raises |-> TRUE, value |-> 0, done |-> TRUE]
                         ELSE [raises |-> FALSE, value |-> parse_cpu_to_millicores(q),
                               done |-> TRUE]
    /\ UNCHANGED <<apiVars, adVars, snapVars, pfVars>>

NextRoundTrip == RoundTrip_call

SpecRoundTrip == InitRoundTrip /\ [][NextRoundTrip]_vars

\* C27: for every cpu value of a whole number of millicores, the cpu string
\* of to_k8s_resources parses, and parses to the millicores int(cpu * 1000)
\* that the admission check counts.
C27_CheckedCpuIsCreatedCpu ==
    pResult.done => ~pResult.raises /\ pResult.value = requested_cpu_m(adReq)

====
